---- MODULE Spec2Model ----
(***************************************************************************)
(* Profile-image storage of the user-management API: the two              *)
(* ProfileImageService variants (app/utils/minio.py provisions the bucket  *)
(* at construction, app/utils/minio_client.py provisions it on every      *)
(* store_image call), the module-level upload_profile_picture of          *)
(* minio_client.py, and the upload / fetch handlers of                     *)
(* app/routers/user_routes.py, against a bucket-oriented object store.     *)
(*                                                                         *)
(* Python strings are sequences of one-character strings, so that         *)
(* rsplit, lower, f-string concatenation and urljoin are computed the way  *)
(* the code computes them.                                                 *)
(***************************************************************************)
EXTENDS Integers, Sequences, FiniteSets, TLC

VARIABLES
    variant,           \* which implementation is deployed: "eager" (minio.py),
                       \* "lazy" (minio_client.py) or "head" (its HEAD side)
    endpoint,          \* settings.MINIO_ENDPOINT
    bucketName,        \* settings.MINIO_BUCKET_NAME
    idempotentCreate,  \* whether the store's createBucket accepts an existing bucket
    buckets,           \* the bucket names that exist in the backing store
    objects,           \* the stored objects: records [bucket, name, content]
    ready,             \* the service instance exists (minio.py), the module is
                       \* imported (minio_client.py, HEAD side)
    ensured,           \* history: buckets seen to exist or created by the gateway
    creates,           \* history: number of createBucket calls the store received
    lastWritten,       \* history: filename -> content of its latest successful store
    uploaded,          \* history: <<user id, object name>> of successful handler uploads
    profileUrl,        \* User.profile_picture_url of each user
    last,              \* the most recent invocation: its inputs, calls and result
    proc               \* the concurrent store_image invocations, one record each

vars == <<variant, endpoint, bucketName, idempotentCreate, buckets, objects, ready,
          ensured, creates, lastWritten, uploaded, profileUrl, last,
          proc>>

----------------------------------------------------------------------------
(* Bounds of the model *)

\* the distinct image payloads are the one-byte sequences <<1>> .. <<NumContents>>
NumContents == 2
\* the createBucket counter stops counting here
MaxCreates == 3

----------------------------------------------------------------------------
(* Strings *)

UpperChars == <<"A", "B", "C", "D", "E", "F", "G", "H", "I", "J", "K", "L", "M",
                "N", "O", "P", "Q", "R", "S", "T", "U", "V", "W", "X", "Y", "Z">>
LowerChars == <<"a", "b", "c", "d", "e", "f", "g", "h", "i", "j", "k", "l", "m",
                "n", "o", "p", "q", "r", "s", "t", "u", "v", "w", "x", "y", "z">>
DigitChars == <<"0", "1", "2", "3", "4", "5", "6", "7", "8", "9">>

Range(s) == {s[i] : i \in 1..Len(s)}

\* F applied to the value of v, which is computed once
Bind(v, F(_)) == CHOOSE r \in {F(x) : x \in {v}} : TRUE

IsAlpha(c) == c \in Range(UpperChars) \cup Range(LowerChars)

\* urllib.parse.scheme_chars
scheme_chars == Range(UpperChars) \cup Range(LowerChars) \cup Range(DigitChars)
                \cup {"+", "-", "."}

LowerChar(c) ==
    IF c \in Range(UpperChars)
    THEN LowerChars[CHOOSE i \in 1..Len(UpperChars) : UpperChars[i] = c]
    ELSE c

\* str.lower()
Lower(s) == Bind(s, LAMBDA t : [i \in 1..Len(t) |-> LowerChar(t[i])])

\* str.find(c, start), 1-based; 0 when absent
Find(s, c, start) ==
    Bind(s, LAMBDA t :
        Bind({i \in start..Len(t) : t[i] = c}, LAMBDA hits :
            IF hits = {} THEN 0 ELSE CHOOSE i \in hits : \A j \in hits : i <= j))

\* str.rfind(c), 1-based; 0 when absent
RFind(s, c) ==
    Bind(s, LAMBDA t :
        Bind({i \in 1..Len(t) : t[i] = c}, LAMBDA hits :
            IF hits = {} THEN 0 ELSE CHOOSE i \in hits : \A j \in hits : i >= j))

From(s, i) == SubSeq(s, i, Len(s))

\* str.split(sep): the list of pieces, never empty
RECURSIVE Split(_, _)
Split(s, sep) ==
    Bind(s, LAMBDA t :
        Bind(Find(t, sep, 1), LAMBDA i :
            IF i = 0 THEN <<t>>
            ELSE <<SubSeq(t, 1, i - 1)>> \o Split(From(t, i + 1), sep)))

\* sep.join(parts)
RECURSIVE Join(_, _)
Join(parts, sep) ==
    Bind(parts, LAMBDA ps :
        IF Len(ps) = 0 THEN <<>>
        ELSE IF Len(ps) = 1 THEN ps[1]
        ELSE ps[1] \o <<sep>> \o Join(Tail(ps), sep))

\* filename.rsplit('.', 1)[-1]
RSplitLast(s) ==
    Bind(s, LAMBDA t :
        Bind(RFind(t, "."), LAMBDA i : IF i = 0 THEN t ELSE From(t, i + 1)))

\* file_name.split(".")[-1]
SplitLast(s) ==
    Bind(Split(s, "."), LAMBDA parts : parts[Len(parts)])

----------------------------------------------------------------------------
(* urllib.parse.urljoin, as store_image calls it.  The alphabet of the    *)
(* model holds no ';', '[', ']', blank or control character, so the       *)
(* params split, the IPv6 check and the stripping of urlsplit do nothing. *)

uses_relative ==
    { <<>>, <<"f", "t", "p">>, <<"h", "t", "t", "p">>,
      <<"g", "o", "p", "h", "e", "r">>, <<"n", "n", "t", "p">>,
      <<"i", "m", "a", "p">>, <<"w", "a", "i", "s">>, <<"f", "i", "l", "e">>,
      <<"h", "t", "t", "p", "s">>, <<"s", "h", "t", "t", "p">>, <<"m", "m", "s">>,
      <<"p", "r", "o", "s", "p", "e", "r", "o">>, <<"r", "t", "s", "p">>,
      <<"r", "t", "s", "p", "s">>, <<"r", "t", "s", "p", "u">>,
      <<"s", "f", "t", "p">>, <<"s", "v", "n">>,
      <<"s", "v", "n", "+", "s", "s", "h">>, <<"w", "s">>, <<"w", "s", "s">> }

uses_netloc ==
    { <<>>, <<"f", "t", "p">>, <<"h", "t", "t", "p">>,
      <<"g", "o", "p", "h", "e", "r">>, <<"n", "n", "t", "p">>,
      <<"t", "e", "l", "n", "e", "t">>, <<"i", "m", "a", "p">>,
      <<"w", "a", "i", "s">>, <<"f", "i", "l", "e">>, <<"m", "m", "s">>,
      <<"h", "t", "t", "p", "s">>, <<"s", "h", "t", "t", "p">>,
      <<"s", "n", "e", "w", "s">>, <<"p", "r", "o", "s", "p", "e", "r", "o">>,
      <<"r", "t", "s", "p">>, <<"r", "t", "s", "p", "s">>,
      <<"r", "t", "s", "p", "u">>, <<"r", "s", "y", "n", "c">>, <<"s", "v", "n">>,
      <<"s", "v", "n", "+", "s", "s", "h">>, <<"s", "f", "t", "p">>,
      <<"n", "f", "s">>, <<"g", "i", "t">>, <<"g", "i", "t", "+", "s", "s", "h">>,
      <<"w", "s">>, <<"w", "s", "s">> }

\* _splitnetloc(url, 2): the domain part ends at the earliest of '/', '?',
\* '#' at or after start, else at the end
NetlocEnd(url, start) ==
    Bind({i \in start..Len(url) : url[i] \in {"/", "?", "#"}}, LAMBDA hits :
        IF hits = {} THEN Len(url) + 1
        ELSE CHOOSE i \in hits : \A j \in hits : i <= j)

\* urlsplit, last part: the query is what follows the first '?'
SplitQuery(sch, netloc, u3, fragment) ==
    Bind(Find(u3, "?", 1), LAMBDA q :
        [scheme |-> sch, netloc |-> netloc,
         path |-> IF q > 0 THEN SubSeq(u3, 1, q - 1) ELSE u3,
         query |-> IF q > 0 THEN From(u3, q + 1) ELSE <<>>,
         fragment |-> fragment])

\* urlsplit: the fragment is what follows the first '#'
SplitFragment(sch, netloc, u2) ==
    Bind(Find(u2, "#", 1), LAMBDA h :
        Bind(IF h > 0 THEN SubSeq(u2, 1, h - 1) ELSE u2, LAMBDA u3 :
            SplitQuery(sch, netloc, u3, IF h > 0 THEN From(u2, h + 1) ELSE <<>>)))

\* urlsplit: a netloc follows a leading '//'
SplitNetloc(sch, u1) ==
    IF Len(u1) >= 2 /\ u1[1] = "/" /\ u1[2] = "/"
    THEN Bind(NetlocEnd(u1, 3), LAMBDA delim :
            Bind(From(u1, delim), LAMBDA u2 :
                SplitFragment(sch, SubSeq(u1, 3, delim - 1), u2)))
    ELSE SplitFragment(sch, <<>>, u1)

\* urlsplit(url, scheme): the scheme is what precedes the first ':', when it
\* starts with a letter and holds scheme characters only
urlsplit(url0, scheme) ==
    Bind(url0, LAMBDA url :
        Bind(Find(url, ":", 1), LAMBDA i :
            IF /\ i > 1
               /\ IsAlpha(url[1])
               /\ \A k \in 1..(i - 1) : url[k] \in scheme_chars
            THEN Bind(From(url, i + 1), LAMBDA u1 :
                    SplitNetloc(Lower(SubSeq(url, 1, i - 1)), u1))
            ELSE SplitNetloc(scheme, url)))

urlunsplit(scheme, netloc, path0, query, fragment) ==
    Bind(path0, LAMBDA path :
    Bind(\/ netloc # <<>>
         \/ /\ scheme # <<>>
            /\ scheme \in uses_netloc
            /\ SubSeq(path, 1, 2) # <<"/", "/">>, LAMBDA withNet :
    Bind(IF withNet
         THEN <<"/", "/">> \o netloc
              \o (IF path # <<>> /\ path[1] # "/" THEN <<"/">> \o path ELSE path)
         ELSE path, LAMBDA u1 :
    Bind(IF scheme # <<>> THEN scheme \o <<":">> \o u1 ELSE u1, LAMBDA u2 :
    Bind(IF query # <<>> THEN u2 \o <<"?">> \o query ELSE u2, LAMBDA u3 :
         IF fragment # <<>> THEN u3 \o <<"#">> \o fragment ELSE u3)))))

\* segments[1:-1] = filter(None, segments[1:-1])
FilterInner(segs0) ==
    Bind(segs0, LAMBDA segs :
        IF Len(segs) <= 2 THEN segs
        ELSE <<segs[1]>>
             \o SelectSeq(SubSeq(segs, 2, Len(segs) - 1), LAMBDA x : x # <<>>)
             \o <<segs[Len(segs)]>>)

\* the loop over segments: '..' pops, '.' is skipped
RECURSIVE Resolve(_, _)
Resolve(segs0, acc0) ==
    Bind(segs0, LAMBDA segs : Bind(acc0, LAMBDA acc :
        IF Len(segs) = 0 THEN acc
        ELSE IF Head(segs) = <<".", ".">>
        THEN Resolve(Tail(segs),
                     IF Len(acc) = 0 THEN acc ELSE SubSeq(acc, 1, Len(acc) - 1))
        ELSE IF Head(segs) = <<".">> THEN Resolve(Tail(segs), acc)
        ELSE Resolve(Tail(segs), Append(acc, Head(segs)))))

\* urljoin, last part: resolve the relative path against the base path
JoinPaths(b, r, netloc) ==
    Bind(Split(b.path, "/"), LAMBDA bp :
    Bind(IF bp[Len(bp)] # <<>> THEN SubSeq(bp, 1, Len(bp) - 1) ELSE bp,
         LAMBDA base_parts :
    Bind(IF r.path[1] = "/" THEN Split(r.path, "/")
         ELSE FilterInner(base_parts \o Split(r.path, "/")), LAMBDA segments :
    Bind(Resolve(segments, <<>>), LAMBDA res0 :
    Bind(Join(IF segments[Len(segments)] \in {<<".">>, <<".", ".">>}
              THEN Append(res0, <<>>) ELSE res0, "/"), LAMBDA joined :
         urlunsplit(r.scheme, netloc, IF joined = <<>> THEN <<"/">> ELSE joined,
                    r.query, r.fragment))))))

urljoin(base, url) ==
    IF base = <<>> THEN url
    ELSE IF url = <<>> THEN base
    ELSE
    Bind(urlsplit(base, <<>>), LAMBDA b :
    Bind(urlsplit(url, b.scheme), LAMBDA r :
        IF r.scheme # b.scheme \/ r.scheme \notin uses_relative THEN url
        ELSE IF r.scheme \in uses_netloc /\ r.netloc # <<>>
        THEN urlunsplit(r.scheme, r.netloc, r.path, r.query, r.fragment)
        ELSE Bind(IF r.scheme \in uses_netloc THEN b.netloc ELSE r.netloc,
                  LAMBDA netloc :
            IF r.path = <<>>
            THEN urlunsplit(r.scheme, netloc, b.path,
                            IF r.query = <<>> THEN b.query ELSE r.query, r.fragment)
            ELSE JoinPaths(b, r, netloc))))

----------------------------------------------------------------------------
(* Inputs *)

Contents == {<<i>> : i \in 1..NumContents}

\* endpoints: "http://m:9", "http://m:9/", and the bare host:port "m:9"
Endpoints ==
    { <<"h", "t", "t", "p", ":", "/", "/", "m", ":", "9">>,
      <<"h", "t", "t", "p", ":", "/", "/", "m", ":", "9", "/">>,
      <<"m", ":", "9">> }

\* the bucket minio_client.py provisions at import
DemoBucket == <<"d", "e", "m", "o">>

\* configured bucket names: "pp" and "demo"
BucketNames == { <<"p", "p">>, DemoBucket }

\* "a.png", "a.PNG", "png", "v.exe", "doc"
Filenames ==
    { <<"a", ".", "p", "n", "g">>,
      <<"a", ".", "P", "N", "G">>,
      <<"p", "n", "g">>,
      <<"v", ".", "e", "x", "e">>,
      <<"d", "o", "c">> }

\* names a presigned URL is asked for: "a.png", which a store may have
\* written, and "v.exe", which no store writes
PresignNames ==
    { <<"a", ".", "p", "n", "g">>, <<"v", ".", "e", "x", "e">> }

\* names of the files users upload: "c.png", "c.PNG", "c.exe"
UploadNames ==
    { <<"c", ".", "p", "n", "g">>,
      <<"c", ".", "P", "N", "G">>,
      <<"c", ".", "e", "x", "e">> }

\* user ids "u" and "w"
UserIds == { <<"u">>, <<"w">> }

\* declared content types "image/png" and "text/plain"
ContentTypes ==
    { <<"i", "m", "a", "g", "e", "/", "p", "n", "g">>,
      <<"t", "e", "x", "t", "/", "p", "l", "a", "i", "n">> }

\* the two concurrent invocations
Procs == {"p1", "p2"}

\* expiry in seconds, as the digits of the number; "3600" is the default
DefaultExpiry == "3600"
Expiries == {DefaultExpiry, "60"}

\* which backing-store operation is unreachable during an invocation
Faults == {"none", "bucketExists", "createBucket", "putObject", "presignGet"}

\* the faults that can show in each operation: those of the calls it makes
EnsureFaults == {"none", "bucketExists", "createBucket"}
PutFaults == {"none", "putObject"}
PresignFaults == {"none", "presignGet"}

NoUser == <<>>
NoName == <<>>
NoUrl == <<>>
NoContent == <<>>

----------------------------------------------------------------------------
(* The backing object store, as the Minio client presents it *)

Call(op, b, n, ret) == [op |-> op, bucket |-> b, name |-> n, ret |-> ret]

\* Minio.bucket_exists
bucket_exists(bs, b, fail) ==
    IF fail = "bucketExists"
    THEN [raised |-> TRUE, found |-> FALSE,
          calls |-> <<Call("bucketExists", b, NoName, "fault")>>]
    ELSE [raised |-> FALSE, found |-> b \in bs,
          calls |-> <<Call("bucketExists", b, NoName,
                           IF b \in bs THEN "true" ELSE "false")>>]

\* Minio.make_bucket: a store whose creation is not idempotent refuses an
\* existing bucket
make_bucket(bs, b, fail) ==
    IF fail = "createBucket"
    THEN [raised |-> TRUE, buckets |-> bs,
          calls |-> <<Call("createBucket", b, NoName, "fault")>>]
    ELSE IF b \in bs /\ ~idempotentCreate
    THEN [raised |-> TRUE, buckets |-> bs,
          calls |-> <<Call("createBucket", b, NoName, "error")>>]
    ELSE [raised |-> FALSE, buckets |-> bs \cup {b},
          calls |-> <<Call("createBucket", b, NoName, "ok")>>]

\* Minio.put_object: the write replaces an object of the same name; a write
\* into a bucket that does not exist is refused
put_object(bs, objs, b, name, content, fail) ==
    IF fail = "putObject"
    THEN [raised |-> TRUE, objects |-> objs,
          calls |-> <<Call("putObject", b, name, "fault")>>]
    ELSE IF b \notin bs
    THEN [raised |-> TRUE, objects |-> objs,
          calls |-> <<Call("putObject", b, name, "error")>>]
    ELSE [raised |-> FALSE,
          objects |-> {o \in objs : ~(o.bucket = b /\ o.name = name)}
                      \cup {[bucket |-> b, name |-> name, content |-> content]},
          calls |-> <<Call("putObject", b, name, "ok")>>]

\* Minio.get_presigned_url('GET', ...): signs locally, reads no object
get_presigned_url(b, name, expiry, fail) ==
    IF fail = "presignGet"
    THEN [raised |-> TRUE, url |-> NoUrl,
          calls |-> <<Call("presignGet", b, name, "fault")>>]
    ELSE [raised |-> FALSE,
          url |-> <<"/">> \o b \o <<"/">> \o name
                  \o <<"?", "X-Amz-Expires", "=", expiry>>,
          calls |-> <<Call("presignGet", b, name, "ok")>>]

----------------------------------------------------------------------------
(* The gateway: each operator is one method, computed on the store it is   *)
(* given, and yields the method's result and the store it leaves.          *)

AllowedExtensions ==
    { <<"j", "p", "g">>, <<"j", "p", "e", "g">>, <<"p", "n", "g">>, <<"g", "i", "f">> }

Result(outcome, detail, url, calls, bs, objs) ==
    [outcome |-> outcome, detail |-> detail, url |-> url, calls |-> calls,
     buckets |-> bs, objects |-> objs]

\* a provisioner that creates the bucket without asking whether it exists
EnsureAlwaysCreate(bs, objs, b, fail) ==
    LET mk == make_bucket(bs, b, fail)
    IN [outcome |-> IF mk.raised THEN "S3Error" ELSE "ok", detail |-> <<>>,
        url |-> NoUrl, calls |-> mk.calls, buckets |-> mk.buckets, objects |-> objs]

\* ProfileImageService._ensure_bucket_exists (both variants)
EnsureBucketExists(bs, objs, b, fail) ==
    LET ex == bucket_exists(bs, b, fail)
    IN IF ex.raised THEN Result("S3Error", <<>>, NoUrl, ex.calls, bs, objs)
       ELSE IF ex.found THEN Result("ok", <<>>, NoUrl, ex.calls, bs, objs)
       ELSE LET mk == make_bucket(bs, b, fail)
            IN Result(IF mk.raised THEN "S3Error" ELSE "ok", <<>>, NoUrl,
                      ex.calls \o mk.calls, mk.buckets, objs)

\* the message of the ValueError store_image raises
InvalidExtension(ext) == <<"Invalid file extension: .">> \o ext

\* urljoin(f"{self._endpoint}/", f"{self._bucket}/{filename}")
CanonicalUrl(ep, b, filename) ==
    urljoin(ep \o <<"/">>, b \o <<"/">> \o filename)

\* a store_image that catches the failure of put_object and returns the URL
EagerStoreSwallow(bs, objs, content, filename, fail) ==
    LET ext == Lower(RSplitLast(filename))
    IN IF ext \notin AllowedExtensions
       THEN Result("ValueError", InvalidExtension(ext), NoUrl, <<>>, bs, objs)
       ELSE LET put == put_object(bs, objs, bucketName, filename, content, fail)
            IN Result("ok", <<>>, CanonicalUrl(endpoint, bucketName, filename),
                      put.calls, bs, put.objects)

\* a store_image that writes under the case-folded filename
EagerStoreLowerName(bs, objs, content, filename, fail) ==
    LET ext == Lower(RSplitLast(filename))
    IN IF ext \notin AllowedExtensions
       THEN Result("ValueError", InvalidExtension(ext), NoUrl, <<>>, bs, objs)
       ELSE LET put == put_object(bs, objs, bucketName, Lower(filename), content, fail)
            IN IF put.raised
               THEN Result("S3Error", <<>>, NoUrl, put.calls, bs, objs)
               ELSE Result("ok", <<>>, CanonicalUrl(endpoint, bucketName, filename),
                           put.calls, bs, put.objects)

\* minio.py ProfileImageService.store_image: validate, put, build the URL
EagerStore(bs, objs, content, filename, fail) ==
    LET ext == Lower(RSplitLast(filename))
    IN IF ext \notin AllowedExtensions
       THEN Result("ValueError", InvalidExtension(ext), NoUrl, <<>>, bs, objs)
       ELSE LET put == put_object(bs, objs, bucketName, filename, content, fail)
            IN IF put.raised
               THEN Result("S3Error", <<>>, NoUrl, put.calls, bs, objs)
               ELSE Result("ok", <<>>, CanonicalUrl(endpoint, bucketName, filename),
                           put.calls, bs, put.objects)

\* a store_image that leaves an object of the same name as it is
LazyStoreKeepFirst(bs, objs, content, filename, fail) ==
    LET en == EnsureBucketExists(bs, objs, bucketName, fail)
        ext == Lower(RSplitLast(filename))
        put == put_object(en.buckets, objs, bucketName, filename, content, fail)
    IN IF en.outcome # "ok" THEN en
       ELSE IF ext \notin AllowedExtensions
       THEN Result("ValueError", InvalidExtension(ext), NoUrl, en.calls,
                   en.buckets, objs)
       ELSE IF \E o \in objs : o.bucket = bucketName /\ o.name = filename
       THEN Result("ok", <<>>, CanonicalUrl(endpoint, bucketName, filename),
                   en.calls, en.buckets, objs)
       ELSE IF put.raised
       THEN Result("S3Error", <<>>, NoUrl, en.calls \o put.calls, en.buckets, objs)
       ELSE Result("ok", <<>>, CanonicalUrl(endpoint, bucketName, filename),
                   en.calls \o put.calls, en.buckets, put.objects)

\* minio_client.py ProfileImageService.store_image: ensure the bucket, then
\* validate, put, build the URL
LazyStore(bs, objs, content, filename, fail) ==
    LET en == EnsureBucketExists(bs, objs, bucketName, fail)
        ext == Lower(RSplitLast(filename))
    IN IF en.outcome # "ok" THEN en
       ELSE IF ext \notin AllowedExtensions
       THEN Result("ValueError", InvalidExtension(ext), NoUrl, en.calls,
                   en.buckets, objs)
       ELSE LET put == put_object(en.buckets, objs, bucketName, filename, content, fail)
            IN IF put.raised
               THEN Result("S3Error", <<>>, NoUrl, en.calls \o put.calls,
                           en.buckets, objs)
               ELSE Result("ok", <<>>, CanonicalUrl(endpoint, bucketName, filename),
                           en.calls \o put.calls, en.buckets, put.objects)

\* minio_client.py, HEAD side, module level: provision the bucket "demo"
HeadProvision(bs, objs, fail) ==
    EnsureBucketExists(bs, objs, DemoBucket, fail)

\* f"{settings.MINIO_ENDPOINT}/{settings.MINIO_BUCKET_NAME}/{file_name}"
HeadUrl(ep, b, file_name) == ep \o <<"/">> \o b \o <<"/">> \o file_name

\* minio_client.py, HEAD side: upload_profile_picture
HeadStore(bs, objs, file_data, file_name, fail) ==
    LET file_extension == Lower(SplitLast(file_name))
    IN IF file_extension \notin AllowedExtensions
       THEN Result("ValueError", <<"Unsupported file type">>, NoUrl, <<>>, bs, objs)
       ELSE LET put == put_object(bs, objs, bucketName, file_name, file_data, fail)
            IN IF put.raised
               THEN Result("S3Error", <<>>, NoUrl, put.calls, bs, objs)
               ELSE Result("ok", <<>>, HeadUrl(endpoint, bucketName, file_name),
                           put.calls, bs, put.objects)

\* a generate_presigned_url that first asks the store for the object
PresignChecked(bs, objs, filename, expiry, fail) ==
    LET ps == get_presigned_url(bucketName, filename, expiry, fail)
    IN IF ~\E o \in objs : o.bucket = bucketName /\ o.name = filename
       THEN Result("S3Error", <<>>, NoUrl,
                   <<Call("statObject", bucketName, filename, "error")>>, bs, objs)
       ELSE Result(IF ps.raised THEN "S3Error" ELSE "ok", <<>>, ps.url,
                   <<Call("statObject", bucketName, filename, "ok")>> \o ps.calls,
                   bs, objs)

\* ProfileImageService.generate_presigned_url (both variants) and
\* get_profile_picture_url
GeneratePresignedUrl(bs, objs, filename, expiry, fail) ==
    LET ps == get_presigned_url(bucketName, filename, expiry, fail)
    IN Result(IF ps.raised THEN "S3Error" ELSE "ok", <<>>, ps.url, ps.calls, bs, objs)

\* str.startswith
StartsWith(s, prefix) ==
    Len(s) >= Len(prefix) /\ SubSeq(s, 1, Len(prefix)) = prefix

\* user_routes.py upload_profile_picture_endpoint: the content-type check,
\* the object name f"{user_id}.{ext}", image_service.store_image, the user
\* lookup.  dbUser is whether the lookup finds the user.
UploadEndpoint(bs, objs, user_id, content_type, upload_name, data, dbUser, fail) ==
    IF ~StartsWith(content_type, <<"i", "m", "a", "g", "e", "/">>)
    THEN [res |-> Result("HTTP400", <<"Only images allowed.">>, NoUrl, <<>>, bs, objs),
          name |-> NoName, stored |-> FALSE]
    ELSE LET ext == RSplitLast(upload_name)
             name == user_id \o <<".">> \o ext
             st == EagerStore(bs, objs, data, name, fail)
         IN IF st.outcome # "ok"
            THEN [res |-> [st EXCEPT !.outcome = "HTTP500"],
                  name |-> name, stored |-> FALSE]
            ELSE IF ~dbUser
            THEN [res |-> [st EXCEPT !.outcome = "HTTP404",
                                     !.detail = <<"User not found.">>],
                  name |-> name, stored |-> TRUE]
            ELSE [res |-> st, name |-> name, stored |-> TRUE]

----------------------------------------------------------------------------
(* History kept for the properties *)

\* the buckets a sequence of calls has seen to exist or has created
EnsuredBy(calls) ==
    {calls[i].bucket : i \in {j \in 1..Len(calls) :
        \/ calls[j].op = "bucketExists" /\ calls[j].ret = "true"
        \/ calls[j].op = "createBucket" /\ calls[j].ret = "ok"}}

CountOp(calls, op) == Cardinality({i \in 1..Len(calls) : calls[i].op = op})

\* the calls of an operation that reached the store
Received(calls, op) ==
    Cardinality({i \in 1..Len(calls) : calls[i].op = op /\ calls[i].ret # "fault"})

Min(a, b) == IF a < b THEN a ELSE b

Invocation(op, user, filename, content, res) ==
    [op |-> op, user |-> user, filename |-> filename,
     content |-> content, outcome |-> res.outcome, detail |-> res.detail,
     url |-> res.url, calls |-> res.calls,
     preBuckets |-> buckets, preObjects |-> objects, preEnsured |-> ensured]

NoInvocation ==
    [op |-> "none", user |-> NoUser, filename |-> NoName,
     content |-> NoContent, outcome |-> "none", detail |-> <<>>, url |-> NoUrl,
     calls |-> <<>>, preBuckets |-> {}, preObjects |-> {}, preEnsured |-> {}]

Written(set, filename, content) ==
    {w \in set : w.name # filename} \cup {[name |-> filename, content |-> content]}

\* what an invocation leaves: the store, the history, its own record.
\* stored says that store_image returned a URL for (filename, content).
Commit(op, user, filename, content, res, stored) ==
    /\ buckets' = res.buckets
    /\ objects' = res.objects
    /\ ensured' = ensured \cup EnsuredBy(res.calls)
    /\ creates' = Min(creates + Received(res.calls, "createBucket"), MaxCreates)
    /\ lastWritten' = IF stored THEN Written(lastWritten, filename, content)
                      ELSE lastWritten
    /\ last' = Invocation(op, user, filename, content, res)

IdleProc ==
    [pc |-> "idle", filename |-> NoName, content |-> NoContent, found |-> FALSE,
     outcome |-> "none", url |-> NoUrl, faulted |-> FALSE]

----------------------------------------------------------------------------------------------------------------------------------------------
(* Initial state: the configuration is loaded, the store is empty, nothing *)
(* is imported yet.  MinIO refuses to create a bucket that exists; the     *)
(* concurrent specification also takes a store whose creation is           *)
(* idempotent.                                                              *)

Variants == {"eager", "lazy", "head"}

InitWith(variants, endpoints, bucketNames, creation) ==
    /\ variant \in variants
    /\ endpoint \in endpoints
    /\ bucketName \in bucketNames
    /\ idempotentCreate \in creation
    /\ buckets = {}
    /\ objects = {}
    /\ ready = FALSE
    /\ ensured = {}
    /\ creates = 0
    /\ lastWritten = {}
    /\ uploaded = {}
    /\ profileUrl = [u \in UserIds |-> NoUrl]
    /\ last = NoInvocation
    /\ proc = [p \in Procs |-> IdleProc]

Init == InitWith(Variants, Endpoints, BucketNames, {FALSE})

config == <<variant, endpoint, bucketName, idempotentCreate>>

----------------------------------------------------------------------------
(* The gateway's operations, one invocation at a time *)

\* minio.py: ProfileImageService() provisions the bucket at construction
EagerConstruct ==
    /\ variant = "eager"
    /\ \E fail \in EnsureFaults :
        \E res \in {EnsureBucketExists(buckets, objects, bucketName, fail)} :
           /\ Commit("construct", NoUser, NoName, NoContent, res, FALSE)
           /\ ready' = (ready \/ res.outcome = "ok")
    /\ UNCHANGED <<config, uploaded, profileUrl, proc>>

\* minio.py: image_service.store_image(content, filename)
EagerStoreImage ==
    /\ variant = "eager" /\ ready
    /\ \E content \in Contents, filename \in Filenames, fail \in PutFaults :
        \E res \in {EagerStore(buckets, objects, content, filename, fail)} :
           Commit("store", NoUser, filename, content, res, res.outcome = "ok")
    /\ UNCHANGED <<config, ready, uploaded, profileUrl, proc>>

\* minio_client.py: store_image(content, filename) on a fresh
\* ProfileImageService, whose constructor calls nothing
LazyStoreImage ==
    /\ variant = "lazy"
    /\ \E content \in Contents, filename \in Filenames, fail \in EnsureFaults \cup PutFaults :
        \E res \in {LazyStore(buckets, objects, content, filename, fail)} :
           Commit("store", NoUser, filename, content, res, res.outcome = "ok")
    /\ UNCHANGED <<config, ready, uploaded, profileUrl, proc>>

\* minio_client.py: ProfileImageService()._ensure_bucket_exists()
LazyEnsureBucket ==
    /\ variant = "lazy"
    /\ \E fail \in EnsureFaults :
        \E res \in {EnsureBucketExists(buckets, objects, bucketName, fail)} :
           Commit("ensure", NoUser, NoName, NoContent, res, FALSE)
    /\ UNCHANGED <<config, ready, uploaded, profileUrl, proc>>

\* minio_client.py, HEAD side: importing the module provisions "demo"
HeadImport ==
    /\ variant = "head" /\ ~ready
    /\ \E fail \in EnsureFaults :
        \E res \in {HeadProvision(buckets, objects, fail)} :
           /\ Commit("import", NoUser, NoName, NoContent, res, FALSE)
           /\ ready' = (res.outcome = "ok")
    /\ UNCHANGED <<config, uploaded, profileUrl, proc>>

\* minio_client.py, HEAD side: upload_profile_picture(file_data, file_name)
HeadUpload ==
    /\ variant = "head" /\ ready
    /\ \E content \in Contents, filename \in Filenames, fail \in PutFaults :
        \E res \in {HeadStore(buckets, objects, content, filename, fail)} :
           Commit("store", NoUser, filename, content, res, res.outcome = "ok")
    /\ UNCHANGED <<config, ready, uploaded, profileUrl, proc>>

\* generate_presigned_url(filename, expiry) of either service, and
\* get_profile_picture_url(file_name) of the HEAD side, which passes no expiry
PresignedUrl ==
    /\ variant \in {"eager", "head"} => ready
    /\ \E filename \in PresignNames, expiry \in Expiries, fail \in PresignFaults :
        /\ variant = "head" => expiry = DefaultExpiry
        /\ \E res \in {GeneratePresignedUrl(buckets, objects, filename, expiry, fail)} :
              Commit("presign", NoUser, filename, NoContent, res, FALSE)
    /\ UNCHANGED <<config, ready, uploaded, profileUrl, proc>>

Next ==
    \/ EagerConstruct
    \/ EagerStoreImage
    \/ LazyStoreImage
    \/ LazyEnsureBucket
    \/ HeadImport
    \/ HeadUpload
    \/ PresignedUrl

Spec == Init /\ [][Next]_vars

----------------------------------------------------------------------------
(* The upload handler, on the service instance user_routes.py constructs *)

UploadProfilePicture ==
    /\ variant = "eager" /\ ready
    /\ \E user_id \in UserIds, content_type \in ContentTypes,
          upload_name \in UploadNames, data \in Contents, dbUser \in BOOLEAN,
          fail \in PutFaults :
        \E up \in {UploadEndpoint(buckets, objects, user_id, content_type,
                                  upload_name, data, dbUser, fail)} :
            /\ Commit("upload", user_id, up.name, data, up.res, up.stored)
            /\ uploaded' = IF up.stored THEN uploaded \cup {<<user_id, up.name>>}
                           ELSE uploaded
            /\ profileUrl' = IF up.res.outcome = "ok"
                             THEN [profileUrl EXCEPT ![user_id] = up.res.url]
                             ELSE profileUrl
    /\ UNCHANGED <<config, ready, proc>>

\* the handler's naming does not read the endpoint or the bucket name
InitHandler ==
    InitWith({"eager"}, {<<"h", "t", "t", "p", ":", "/", "/", "m", ":", "9">>},
             {<<"p", "p">>}, {FALSE})

NextHandler ==
    \/ EagerConstruct
    \/ UploadProfilePicture

SpecHandler == InitHandler /\ [][NextHandler]_vars

----------------------------------------------------------------------------
(* Concurrent invocations of minio_client.py store_image: each call of the *)
(* backing store is one step, and the steps of the invocations interleave. *)

Finished(p, outcome, url, faulted) ==
    proc' = [proc EXCEPT ![p].pc = "done", ![p].outcome = outcome,
                         ![p].url = url, ![p].faulted = faulted]

\* store_image(content, filename): a fresh ProfileImageService, no call yet
ConcStart(p) ==
    /\ proc[p].pc = "idle"
    /\ \E content \in Contents, filename \in Filenames :
        proc' = [proc EXCEPT ![p].pc = "exists", ![p].content = content,
                             ![p].filename = filename]
    /\ UNCHANGED <<config, buckets, objects, ready, ensured, creates, lastWritten,
                   uploaded, profileUrl, last>>

\* an existence check whose branches are swapped: create when the bucket is
\* found, go on to the write when it is not
ConcBucketExistsInverted(p) ==
    /\ proc[p].pc = "exists"
    /\ \E fail \in {"none", "bucketExists"} :
        \E ex \in {bucket_exists(buckets, bucketName, fail)} :
            /\ IF ex.raised
               THEN proc' = [proc EXCEPT ![p].pc = "done", ![p].outcome = "S3Error",
                                         ![p].faulted = TRUE]
               ELSE proc' = [proc EXCEPT ![p].found = ex.found,
                                         ![p].pc = IF ex.found THEN "create" ELSE "put"]
            /\ ensured' = ensured \cup EnsuredBy(ex.calls)
    /\ UNCHANGED <<config, buckets, objects, ready, creates, lastWritten, uploaded,
                   profileUrl, last>>

\* _ensure_bucket_exists: self._client.bucket_exists(self._bucket)
ConcBucketExists(p) ==
    /\ proc[p].pc = "exists"
    /\ \E fail \in {"none", "bucketExists"} :
        \E ex \in {bucket_exists(buckets, bucketName, fail)} :
            /\ IF ex.raised THEN Finished(p, "S3Error", NoUrl, TRUE)
               ELSE proc' = [proc EXCEPT ![p].found = ex.found,
                                         ![p].pc = IF ex.found THEN "put" ELSE "create"]
            /\ ensured' = ensured \cup EnsuredBy(ex.calls)
    /\ UNCHANGED <<config, buckets, objects, ready, creates, lastWritten, uploaded,
                   profileUrl, last>>

\* _ensure_bucket_exists: self._client.make_bucket(self._bucket)
ConcMakeBucket(p) ==
    /\ proc[p].pc = "create"
    /\ \E fail \in {"none", "createBucket"} :
        \E mk \in {make_bucket(buckets, bucketName, fail)} :
            /\ IF mk.raised THEN Finished(p, "S3Error", NoUrl, fail # "none")
               ELSE proc' = [proc EXCEPT ![p].pc = "put"]
            /\ buckets' = mk.buckets
            /\ ensured' = ensured \cup EnsuredBy(mk.calls)
            /\ creates' = Min(creates + Received(mk.calls, "createBucket"), MaxCreates)
    /\ UNCHANGED <<config, objects, ready, lastWritten, uploaded, profileUrl, last>>

\* store_image after the bucket is ensured: validate, put, build the URL
ConcPutObject(p) ==
    /\ proc[p].pc = "put"
    /\ \E fail \in PutFaults :
        \E st \in {EagerStore(buckets, objects, proc[p].content, proc[p].filename,
                              fail)} :
            /\ Finished(p, st.outcome, st.url, fail # "none" /\ st.outcome = "S3Error")
            /\ objects' = st.objects
            /\ lastWritten' = IF st.outcome = "ok"
                              THEN Written(lastWritten, proc[p].filename, proc[p].content)
                              ELSE lastWritten
    /\ UNCHANGED <<config, buckets, ready, ensured, creates, uploaded, profileUrl, last>>

ConcStep(p) ==
    \/ ConcBucketExists(p)
    \/ ConcMakeBucket(p)
    \/ ConcPutObject(p)

InitConc == InitWith({"lazy"}, Endpoints, BucketNames, BOOLEAN)

NextConc ==
    \E p \in Procs :
        \/ ConcStart(p)
        \/ ConcStep(p)

SpecConc == InitConc /\ [][NextConc]_vars

----------------------------------------------------------------------------
(* Properties *)

\* the extension as the specification words it: the case-folded substring
\* after the last '.', of a filename that holds a '.'
HasDot(f) == RFind(f, ".") > 0
SpecExtension(f) == Lower(From(f, RFind(f, ".") + 1))
SpecValid(f) == HasDot(f) /\ SpecExtension(f) \in AllowedExtensions

NoFault(calls) == \A i \in 1..Len(calls) : calls[i].ret # "fault"

StoredAs(f, c) == [bucket |-> bucketName, name |-> f, content |-> c]

\* C1: a storeImage whose filename has no '.', or whose case-folded
\* extension is not jpg, jpeg, png or gif, fails with a validation error that
\* carries the extension, makes no call to the backing store and leaves the
\* store as it was.
C1_InvalidExtensionNoStoreCall ==
    (last.op = "store" /\ ~SpecValid(last.filename)) =>
        /\ last.outcome = "ValueError"
        /\ last.detail = InvalidExtension(Lower(RSplitLast(last.filename)))
        /\ last.calls = <<>>
        /\ objects = last.preObjects
        /\ buckets = last.preBuckets

\* C2: every putObject into a bucket comes after a bucketExists on that
\* bucket that answered true, or a createBucket of that bucket, in the
\* gateway's history.
C2_PutAfterEnsure ==
    \A i \in 1..Len(last.calls) :
        last.calls[i].op = "putObject" =>
            last.calls[i].bucket \in
                last.preEnsured \cup EnsuredBy(SubSeq(last.calls, 1, i - 1))

\* C3: the bucket holds exactly one object for every filename a storeImage
\* has stored, with the content of the latest successful storeImage of that
\* filename, and nothing else; a storeImage over an existing name succeeds.
C3_LastWriteWins ==
    /\ \A w \in lastWritten :
        {o \in objects : o.name = w.name} = {StoredAs(w.name, w.content)}
    /\ \A o \in objects : \E w \in lastWritten : w.name = o.name
    /\ (/\ last.op = "store"
        /\ \E o \in last.preObjects : o.name = last.filename
        /\ NoFault(last.calls)) => last.outcome = "ok"

\* C3 witness: a storeImage has replaced a different content of the same name
C3_Witness ==
    /\ last.op = "store" /\ last.outcome = "ok"
    /\ \E o \in last.preObjects :
        o.name = last.filename /\ o.content # last.content
    /\ StoredAs(last.filename, last.content) \in objects

\* C4: the objects the upload handler has written for one user are at most
\* one.
C4_OneObjectPerUser ==
    \A u \in UserIds :
        Cardinality({o \in objects : <<u, o.name>> \in uploaded}) <= 1

\* C5: a storeImage whose putObject fails returns no URL, surfaces the
\* failure and issues no second putObject; a URL is returned only after a
\* putObject that succeeded.
C5_FailedPutSurfaces ==
    last.op = "store" =>
        /\ \A i \in 1..Len(last.calls) :
            (last.calls[i].op = "putObject" /\ last.calls[i].ret # "ok") =>
                /\ last.outcome = "S3Error"
                /\ last.url = NoUrl
                /\ CountOp(last.calls, "putObject") = 1
                /\ objects = last.preObjects
        /\ last.url # NoUrl =>
            /\ last.outcome = "ok"
            /\ Len(last.calls) > 0
            /\ last.calls[Len(last.calls)].op = "putObject"
            /\ last.calls[Len(last.calls)].ret = "ok"

\* C5 witness: a storeImage whose putObject failed
C5_Witness ==
    /\ last.op = "store" /\ last.outcome = "S3Error"
    /\ Len(last.calls) > 0
    /\ last.calls[Len(last.calls)].op = "putObject"
    /\ last.calls[Len(last.calls)].ret = "fault"

\* C6: generatePresignedUrl makes the presign call and no other, whatever
\* the extension and whether or not the object exists; it writes nothing and
\* returns the URL unless the presign call itself fails.
C6_PresignNoChecks ==
    last.op = "presign" =>
        /\ Len(last.calls) = 1
        /\ last.calls[1].op = "presignGet"
        /\ last.calls[1].name = last.filename
        /\ objects = last.preObjects
        /\ buckets = last.preBuckets
        /\ last.calls[1].ret = "ok" => (last.outcome = "ok" /\ last.url # NoUrl)

\* C6 witness: a presigned URL returned for a name with a rejected extension
\* and no object behind it
C6_Witness ==
    /\ last.op = "presign" /\ last.outcome = "ok" /\ last.url # NoUrl
    /\ ~SpecValid(last.filename)
    /\ ~\E o \in objects : o.name = last.filename

\* the endpoint without its trailing '/'
Stripped(ep) ==
    IF Len(ep) > 0 /\ ep[Len(ep)] = "/" THEN SubSeq(ep, 1, Len(ep) - 1) ELSE ep

\* C7: the URL a successful storeImage returns is endpoint, bucket name and
\* filename with exactly one '/' between them, with or without a trailing
\* '/' on the endpoint.
C7_CanonicalUrlJoin ==
    (last.op = "store" /\ last.outcome = "ok") =>
        last.url = Stripped(endpoint) \o <<"/">> \o bucketName \o <<"/">> \o last.filename

\* C8: a storeImage whose extension is jpg, jpeg, png or gif in any letter
\* case goes on to the write, under the filename exactly as passed, and a
\* write that succeeds stores the content under that name and changes no
\* other object.
C8_ExactNameStored ==
    (last.op = "store" /\ SpecValid(last.filename)) =>
        /\ NoFault(last.calls) =>
            /\ Len(last.calls) > 0
            /\ last.calls[Len(last.calls)] \in
                {Call("putObject", bucketName, last.filename, r) : r \in {"ok", "error"}}
        /\ (Len(last.calls) > 0 /\ last.calls[Len(last.calls)].ret = "ok") =>
            /\ last.outcome = "ok"
            /\ objects = {o \in last.preObjects : o.name # last.filename}
                         \cup {StoredAs(last.filename, last.content)}

\* C8 witness: "a.PNG" was stored under "a.PNG" beside an object "a.png"
C8_Witness ==
    /\ last.op = "store" /\ last.outcome = "ok"
    /\ last.filename = <<"a", ".", "P", "N", "G">>
    /\ StoredAs(<<"a", ".", "P", "N", "G">>, last.content) \in objects
    /\ \E o \in objects : o.name = <<"a", ".", "p", "n", "g">>

\* the bucket an invocation provisions
Provisioned == IF last.op = "import" THEN DemoBucket ELSE bucketName

\* C9: with the store reachable, ensureBucket does not raise and leaves the
\* bucket existing; called on a bucket that exists it issues no createBucket;
\* over any number of calls in sequence the store receives at most one
\* createBucket.
C9_EnsureBucketIdempotent ==
    /\ creates <= 1
    /\ last.op \in {"ensure", "construct", "import"} =>
        /\ NoFault(last.calls) => (last.outcome = "ok" /\ Provisioned \in buckets)
        /\ Provisioned \in last.preBuckets => CountOp(last.calls, "createBucket") = 0

\* C9 witness: ensureBucket called again after a call that created the bucket
C9_Witness ==
    /\ last.op = "ensure" /\ last.outcome = "ok"
    /\ bucketName \in last.preBuckets
    /\ creates = 1
    /\ last.calls = <<Call("bucketExists", bucketName, NoName, "true")>>

\* the invocations that raced: all are done, all saw the bucket absent, none
\* met an unreachable store, all have a valid filename
Raced ==
    \A p \in Procs :
        /\ proc[p].pc = "done"
        /\ ~proc[p].found
        /\ ~proc[p].faulted
        /\ SpecValid(proc[p].filename)

\* C10: when the concurrent storeImage invocations all see the bucket absent
\* and createBucket is idempotent, none fails, the bucket exists and every
\* object is written; no invocation ever waits for another.
C10_ConcurrentFirstWriters ==
    /\ \A p \in Procs : proc[p].pc \in {"exists", "create", "put"} => ENABLED ConcStep(p)
    /\ (idempotentCreate /\ Raced) =>
        /\ bucketName \in buckets
        /\ \A p \in Procs :
            /\ proc[p].outcome = "ok"
            /\ \E o \in objects :
                /\ o.bucket = bucketName /\ o.name = proc[p].filename
                /\ \E q \in Procs :
                    proc[q].filename = o.name /\ proc[q].content = o.content

\* C10 witness: both invocations saw the bucket absent, both created it, both
\* wrote
C10_Witness ==
    /\ idempotentCreate /\ Raced
    /\ creates = 2
    /\ \A p \in Procs : proc[p].outcome = "ok"
    /\ \E p, q \in Procs : proc[p].filename # proc[q].filename

====
